---- MODULE Spec2Model ----
(***************************************************************************)
(* Model of rust_data_collector (src/rust_data_collector/src/lib.rs):      *)
(* get_openweather_data, get_smard_day_ahead_prices and the orchestrator   *)
(* fetch_and_save_data, one action per statement group of the orchestrator.*)
(***************************************************************************)
EXTENDS Integers, Sequences, FiniteSets, TLC

VARIABLES
    pc,             \* position inside fetch_and_save_data
    envKey,         \* OPENWEATHER_API_KEY as env::var sees it
    api_key,        \* local openweather_api_key (<<>> until loaded)
    clock,          \* wall clock, milliseconds
    now,            \* local `now` (<<>> until read)
    start_ms,       \* local start_timestamp_ms
    end_ms,         \* local end_timestamp_ms
    weather_resp,   \* what the weather provider answered (<<>> before the request)
    weather_result, \* Result returned by get_openweather_data
    smard_resp,     \* what the price provider answered
    smard_window,   \* (start, end) handed to get_smard_day_ahead_prices
    smard_result,   \* Result returned by get_smard_day_ahead_prices
    files,          \* data_dir: weather_data.json and smard_prices.json
    files0,         \* data_dir as it was when the call started
    result,         \* PyResult<String> of fetch_and_save_data
    log,            \* HTTP requests and file writes executed, in order
    f_in,           \* direct call of get_smard_day_ahead_prices: response
    f_start,        \*   start_timestamp_ms
    f_end,          \*   end_timestamp_ms
    f_out           \*   its Result (<<>> before the call)

vars == <<pc, envKey, api_key, clock, now, start_ms, end_ms, weather_resp,
          weather_result, smard_resp, smard_window, smard_result, files,
          files0, result, log, f_in, f_start, f_end, f_out>>

orchVars == <<pc, envKey, api_key, clock, now, start_ms, end_ms, weather_resp,
              weather_result, smard_resp, smard_window, smard_result, files,
              files0, result, log>>

filterVars == <<f_in, f_start, f_end, f_out>>

-----------------------------------------------------------------------------
(* Bounds of the model *)

MaxTicks == 2       \* how far the clock may advance during one call
MaxPoints == 2      \* longest upstream price sequence in the orchestrator runs
MaxFilterLen == 3   \* longest upstream price sequence in direct filter calls

-----------------------------------------------------------------------------
(* Time *)

\* Duration::hours(48) in milliseconds
WindowMs == 48 * 3600 * 1000

\* the instant at which the call starts
T0 == WindowMs + 5

-----------------------------------------------------------------------------
(* Result values: Ok(val) / Err(err) / a panic unwinding out of the function *)

Ok(v) == [tag |-> "Ok", val |-> <<v>>, err |-> <<>>]
Err(e) == [tag |-> "Err", val |-> <<>>, err |-> <<e>>]
Panicked == [tag |-> "Panic", val |-> <<>>, err |-> <<>>]

\* a reqwest::Error: its kind, the status it carries (if any), the text it carries
ReqwestError(kind, status, text) == [kind |-> kind, status |-> status, text |-> text]

-----------------------------------------------------------------------------
(* HTTP responses *)

Statuses == {200, 404, 500}

is_success(status) == status >= 200 /\ status <= 299

\* io: "send_err" (send() failed), "body_err" (reading the body failed), "ok"
Response(io, status, body) == [io |-> io, status |-> status, body |-> body]

-----------------------------------------------------------------------------
(* Weather provider: bodies, serde_json::from_str, serde_json::to_string_pretty *)

\* top-level keys a weather body may carry: the two fields of
\* OpenWeatherOneCallResponse and one key the struct does not declare
WKeys == {"current", "hourly", "timezone"}

\* "mistyped": present, but it (or a field nested in it, such as current.main)
\* is missing a required member or has the wrong type
FieldStates == {"absent", "ok", "mistyped"}

WeatherValues == {1, 2}

\* A response text. json: it is well-formed JSON; f: its keys; v: the readings
\* it carries; boundary500: byte index min(len, 500) is a char boundary.
WeatherBodies ==
    {[json |-> TRUE, f |-> f, v |-> v, boundary500 |-> b] :
        f \in [WKeys -> FieldStates], v \in WeatherValues, b \in BOOLEAN}
    \cup
    {[json |-> FALSE, f |-> [k \in WKeys |-> "absent"], v |-> 0, boundary500 |-> b] :
        b \in BOOLEAN}

WeatherResponses ==
    {Response("send_err", 0, <<>>)}
    \cup {Response("body_err", s, <<>>) : s \in Statuses}
    \cup {Response("ok", s, <<b>>) : s \in Statuses, b \in WeatherBodies}

\* serde_json::from_str::<OpenWeatherOneCallResponse> succeeds
WeatherDeserializes(body) ==
    body.json /\ body.f["current"] = "ok" /\ body.f["hourly"] = "ok"

\* the struct serde builds: undeclared keys are dropped
WeatherFromStr(body) == [current |-> body.v, hourly |-> body.v]

\* serde_json::to_string_pretty(&weather_data): exactly the declared fields
WeatherToStringPretty(data) ==
    [json |-> TRUE,
     f |-> [k \in WKeys |-> IF k \in {"current", "hourly"} THEN "ok" ELSE "absent"],
     v |-> data.current]

\* the Err of the non-success branch
WeatherStatusError(status, body) == ReqwestError("status", <<status>>, <<body>>)

\* the Err built in the map_err closure of the deserialization
WeatherDecodeError(body) == ReqwestError("unknown", <<>>, <<body>>)

\* get_openweather_data, given what the provider answers
get_openweather_data(resp) ==
    IF resp.io # "ok"
    THEN Err(ReqwestError("request", <<>>, <<>>))
    ELSE LET status == resp.status
             response_text == resp.body[1]
         IN  IF ~response_text.boundary500
             THEN Panicked
             ELSE IF ~is_success(status)
             THEN Err(WeatherStatusError(status, response_text))
             ELSE IF ~WeatherDeserializes(response_text)
             THEN Err(WeatherDecodeError(response_text))
             ELSE Ok(WeatherFromStr(response_text))

-----------------------------------------------------------------------------
(* Price provider: SmardDataPoint, SmardApiResponse, the timestamp filter *)

BSeq(S, n) == UNION {[1..k -> S] : k \in 0..n}

SmardDataPoint(t, v) == [timestamp |-> t, value |-> v]

\* A response text. decodes: Response::json::<SmardApiResponse>() accepts it;
\* data: the points it lists, in upstream order; extra: it carries keys the
\* struct does not declare.
SmardBody(decodes, data, extra) == [decodes |-> decodes, data |-> data, extra |-> extra]

\* timestamps around both ends of every window the orchestrator can compute
SmardTimestamps == {4, 6, T0 + 1, T0 + MaxTicks + 1}

SmardPoints == {SmardDataPoint(t, 7) : t \in SmardTimestamps}

SmardBodies ==
    {SmardBody(TRUE, d, x) : d \in BSeq(SmardPoints, MaxPoints), x \in BOOLEAN}
    \cup {SmardBody(FALSE, <<>>, FALSE)}

SmardResponses ==
    {Response("send_err", 0, <<>>)}
    \cup {Response("body_err", s, <<>>) : s \in Statuses}
    \cup {Response("ok", s, <<b>>) : s \in Statuses, b \in SmardBodies}

\* faulty variant: the upper bound taken exclusive
InWindow_ExclusiveEnd(dp, start_timestamp_ms, end_timestamp_ms) ==
    dp.timestamp >= start_timestamp_ms /\ dp.timestamp < end_timestamp_ms

\* the closure handed to .filter()
InWindow(dp, start_timestamp_ms, end_timestamp_ms) ==
    dp.timestamp >= start_timestamp_ms /\ dp.timestamp <= end_timestamp_ms

\* response.data.into_iter().filter(..).collect()
FilterData(data, start_timestamp_ms, end_timestamp_ms) ==
    LET Keep(dp) == InWindow(dp, start_timestamp_ms, end_timestamp_ms)
    IN  SelectSeq(data, Keep)

\* get_smard_day_ahead_prices, given what the provider answers
get_smard_day_ahead_prices(resp, start_timestamp_ms, end_timestamp_ms) ==
    IF resp.io = "send_err"
    THEN Err(ReqwestError("request", <<>>, <<>>))
    ELSE IF resp.io = "body_err" \/ ~resp.body[1].decodes
    THEN Err(ReqwestError("decode", <<>>, <<>>))
    ELSE Ok([data |-> FilterData(resp.body[1].data, start_timestamp_ms,
                                 end_timestamp_ms)])

\* serde_json::to_string_pretty(&smard_data): the data array and nothing else
SmardToStringPretty(smard_data) == SmardBody(TRUE, smard_data.data, FALSE)

-----------------------------------------------------------------------------
(* Files of data_dir and std::fs::write *)

Absent == [kind |-> "absent", text |-> <<>>]
Stale == [kind |-> "stale", text |-> <<>>]
Full(text) == [kind |-> "full", text |-> <<text>>]
\* what a write that failed after the file was created or truncated leaves
Partial(text) == [kind |-> "partial", text |-> <<text>>]

WriteOutcomes == {"ok", "open_err", "write_err"}

\* fs::write(path, contents): File::create (create or truncate), then write_all
FsWrite(old, contents, outcome) ==
    CASE outcome = "ok" -> Full(contents)
      [] outcome = "open_err" -> old
      [] outcome = "write_err" -> Partial(contents)

-----------------------------------------------------------------------------
(* PyResult<String> of fetch_and_save_data *)

Pending == [tag |-> "Pending", exc |-> "", msg |-> "", cause |-> <<>>]
PyOk(msg) == [tag |-> "Ok", exc |-> "", msg |-> msg, cause |-> <<>>]
PyErr(exc, msg, cause) == [tag |-> "Err", exc |-> exc, msg |-> msg, cause |-> cause]
\* pyo3 turns a panic of the function body into a raised PanicException
PyPanic == [tag |-> "Err", exc |-> "PanicException", msg |-> "", cause |-> <<>>]

\* the environment value: "absent", "notunicode", "empty" or "valid"
EnvStates == {"absent", "notunicode", "empty", "valid"}
\* what a .env file can hold for the key
DotenvStates == {"absent", "empty", "valid"}

\* dotenv().ok(): variables already set in the process win over the file
Dotenv(procEnv, dotenvFile) == IF procEnv = "absent" THEN dotenvFile ELSE procEnv

\* faulty variant: a missing key read as an empty one (unwrap_or_default)
EnvVarOk_Defaulted(v) == TRUE

\* env::var: Ok only for a present, valid-unicode value
EnvVarOk(v) == v \in {"empty", "valid"}

-----------------------------------------------------------------------------
(* fetch_and_save_data *)

\* one executed step of the call and whether it succeeded
Step(name, ok) == [step |-> name, ok |-> ok]

SuccessMessage == "Data fetching complete."

PreexistingFiles == {Absent, Stale}

Init ==
    /\ pc = "dotenv"
    /\ envKey \in EnvStates
    /\ api_key = <<>>
    /\ clock = T0
    /\ now = <<>>
    /\ start_ms = 0
    /\ end_ms = 0
    /\ weather_resp = <<>>
    /\ weather_result = <<>>
    /\ smard_resp = <<>>
    /\ smard_window = <<>>
    /\ smard_result = <<>>
    /\ files \in [weather : PreexistingFiles, smard : PreexistingFiles]
    /\ files0 = files
    /\ result = Pending
    /\ log = <<>>
    /\ f_in = Response("send_err", 0, <<>>)
    /\ f_start = 0
    /\ f_end = 0
    /\ f_out = <<>>

\* time passes while the call runs
Tick ==
    /\ clock < T0 + MaxTicks
    /\ clock' = clock + 1
    /\ UNCHANGED <<pc, envKey, api_key, now, start_ms, end_ms, weather_resp,
                   weather_result, smard_resp, smard_window, smard_result,
                   files, files0, result, log, filterVars>>

\* dotenv().ok()
LoadDotenv ==
    /\ pc = "dotenv"
    /\ \E dotenvFile \in DotenvStates : envKey' = Dotenv(envKey, dotenvFile)
    /\ pc' = "key"
    /\ UNCHANGED <<api_key, clock, now, start_ms, end_ms, weather_resp,
                   weather_result, smard_resp, smard_window, smard_result,
                   files, files0, result, log, filterVars>>

\* let openweather_api_key = env::var("OPENWEATHER_API_KEY").map_err(..)?
LoadKey ==
    /\ pc = "key"
    /\ IF EnvVarOk(envKey)
       THEN /\ api_key' = <<envKey>>
            /\ pc' = "now"
            /\ result' = result
       ELSE /\ api_key' = api_key
            /\ pc' = "done"
            /\ result' = PyErr("PyValueError", "OPENWEATHER_API_KEY not set", <<>>)
    /\ log' = Append(log, Step("key", EnvVarOk(envKey)))
    /\ UNCHANGED <<envKey, clock, now, start_ms, end_ms, weather_resp,
                   weather_result, smard_resp, smard_window, smard_result,
                   files, files0, filterVars>>

\* let now = Utc::now(); end_timestamp_ms; start_timestamp_ms
ReadClock ==
    /\ pc = "now"
    /\ now' = <<clock>>
    /\ end_ms' = clock
    /\ start_ms' = clock - WindowMs
    /\ pc' = "weather"
    /\ log' = Append(log, Step("now", TRUE))
    /\ UNCHANGED <<envKey, api_key, clock, weather_resp, weather_result,
                   smard_resp, smard_window, smard_result, files, files0,
                   result, filterVars>>

\* faulty variant: a failed send is tried again instead of being returned
FetchWeather_Retry ==
    /\ pc = "weather"
    /\ \E resp \in WeatherResponses :
         LET r == get_openweather_data(resp)
         IN  /\ weather_resp' = <<resp>>
             /\ weather_result' = <<r>>
             /\ log' = Append(log, Step("weather_req", r.tag = "Ok"))
             /\ CASE r.tag = "Ok" ->
                       /\ pc' = "weather_write"
                       /\ result' = result
                  [] r.tag = "Err" /\ resp.io = "send_err" ->
                       /\ pc' = "weather"
                       /\ result' = result
                  [] r.tag = "Err" /\ resp.io # "send_err" ->
                       /\ pc' = "done"
                       /\ result' = PyErr("PyIOError",
                                          "Failed to fetch OpenWeatherMap data", r.err)
                  [] r.tag = "Panic" ->
                       /\ pc' = "done"
                       /\ result' = PyPanic
    /\ UNCHANGED <<envKey, api_key, clock, now, start_ms, end_ms, smard_resp,
                   smard_window, smard_result, files, files0, filterVars>>

\* let weather_data = get_openweather_data(..).map_err(..)?
FetchWeather ==
    /\ pc = "weather"
    /\ \E resp \in WeatherResponses :
         LET r == get_openweather_data(resp)
         IN  /\ weather_resp' = <<resp>>
             /\ weather_result' = <<r>>
             /\ log' = Append(log, Step("weather_req", r.tag = "Ok"))
             /\ CASE r.tag = "Ok" ->
                       /\ pc' = "weather_write"
                       /\ result' = result
                  [] r.tag = "Err" ->
                       /\ pc' = "done"
                       /\ result' = PyErr("PyIOError",
                                          "Failed to fetch OpenWeatherMap data", r.err)
                  [] r.tag = "Panic" ->
                       /\ pc' = "done"
                       /\ result' = PyPanic
    /\ UNCHANGED <<envKey, api_key, clock, now, start_ms, end_ms, smard_resp,
                   smard_window, smard_result, files, files0, filterVars>>

\* faulty variant: the write's Result is dropped and the call goes on
WriteWeather_Swallow ==
    /\ pc = "weather_write"
    /\ \E outcome \in WriteOutcomes :
         /\ files' = [files EXCEPT !.weather =
                        FsWrite(@, WeatherToStringPretty(weather_result[1].val[1]), outcome)]
         /\ log' = Append(log, Step("weather_write", outcome = "ok"))
         /\ pc' = "smard"
         /\ result' = result
    /\ UNCHANGED <<envKey, api_key, clock, now, start_ms, end_ms, weather_resp,
                   weather_result, smard_resp, smard_window, smard_result,
                   files0, filterVars>>

\* fs::write(&weather_path, to_string_pretty(&weather_data).unwrap()).map_err(..)?
WriteWeather ==
    /\ pc = "weather_write"
    /\ \E outcome \in WriteOutcomes :
         /\ files' = [files EXCEPT !.weather =
                        FsWrite(@, WeatherToStringPretty(weather_result[1].val[1]), outcome)]
         /\ log' = Append(log, Step("weather_write", outcome = "ok"))
         /\ IF outcome = "ok"
            THEN /\ pc' = "smard"
                 /\ result' = result
            ELSE /\ pc' = "done"
                 /\ result' = PyErr("PyIOError", "Failed to write weather data", <<>>)
    /\ UNCHANGED <<envKey, api_key, clock, now, start_ms, end_ms, weather_resp,
                   weather_result, smard_resp, smard_window, smard_result,
                   files0, filterVars>>

\* faulty variant: the window is taken from the clock at the time of the price request
SmardWindowArgs_Reread == <<clock - WindowMs, clock>>

\* the start_timestamp_ms, end_timestamp_ms arguments of the price fetch
SmardWindowArgs == <<start_ms, end_ms>>

\* faulty variant: a failed price fetch removes the weather file written before it
FetchSmard_Rollback ==
    /\ pc = "smard"
    /\ \E resp \in SmardResponses :
         LET r == get_smard_day_ahead_prices(resp, SmardWindowArgs[1], SmardWindowArgs[2])
         IN  /\ smard_resp' = <<resp>>
             /\ smard_window' = SmardWindowArgs
             /\ smard_result' = <<r>>
             /\ log' = Append(log, Step("smard_req", r.tag = "Ok"))
             /\ IF r.tag = "Ok"
                THEN /\ pc' = "smard_write"
                     /\ result' = result
                     /\ files' = files
                ELSE /\ pc' = "done"
                     /\ result' = PyErr("PyIOError", "Failed to fetch SMARD data", r.err)
                     /\ files' = [files EXCEPT !.weather = Absent]
    /\ UNCHANGED <<envKey, api_key, clock, now, start_ms, end_ms, weather_resp,
                   weather_result, files0, filterVars>>

\* let smard_data = get_smard_day_ahead_prices(.., start, end).map_err(..)?
FetchSmard ==
    /\ pc = "smard"
    /\ \E resp \in SmardResponses :
         LET r == get_smard_day_ahead_prices(resp, SmardWindowArgs[1], SmardWindowArgs[2])
         IN  /\ smard_resp' = <<resp>>
             /\ smard_window' = SmardWindowArgs
             /\ smard_result' = <<r>>
             /\ log' = Append(log, Step("smard_req", r.tag = "Ok"))
             /\ IF r.tag = "Ok"
                THEN /\ pc' = "smard_write"
                     /\ result' = result
                ELSE /\ pc' = "done"
                     /\ result' = PyErr("PyIOError", "Failed to fetch SMARD data", r.err)
    /\ UNCHANGED <<envKey, api_key, clock, now, start_ms, end_ms, weather_resp,
                   weather_result, files, files0, filterVars>>

\* faulty variant: the write's Result is dropped and the call goes on to return Ok
WriteSmard_Swallow ==
    /\ pc = "smard_write"
    /\ \E outcome \in WriteOutcomes :
         /\ files' = [files EXCEPT !.smard =
                        FsWrite(@, SmardToStringPretty(smard_result[1].val[1]), outcome)]
         /\ log' = Append(log, Step("smard_write", outcome = "ok"))
         /\ pc' = "return"
         /\ result' = result
    /\ UNCHANGED <<envKey, api_key, clock, now, start_ms, end_ms, weather_resp,
                   weather_result, smard_resp, smard_window, smard_result,
                   files0, filterVars>>

\* fs::write(&smard_path, to_string_pretty(&smard_data).unwrap()).map_err(..)?
WriteSmard ==
    /\ pc = "smard_write"
    /\ \E outcome \in WriteOutcomes :
         /\ files' = [files EXCEPT !.smard =
                        FsWrite(@, SmardToStringPretty(smard_result[1].val[1]), outcome)]
         /\ log' = Append(log, Step("smard_write", outcome = "ok"))
         /\ IF outcome = "ok"
            THEN /\ pc' = "return"
                 /\ result' = result
            ELSE /\ pc' = "done"
                 /\ result' = PyErr("PyIOError", "Failed to write SMARD data", <<>>)
    /\ UNCHANGED <<envKey, api_key, clock, now, start_ms, end_ms, weather_resp,
                   weather_result, smard_resp, smard_window, smard_result,
                   files0, filterVars>>

\* Ok("Data fetching complete.".to_string())
Return ==
    /\ pc = "return"
    /\ result' = PyOk(SuccessMessage)
    /\ pc' = "done"
    /\ UNCHANGED <<envKey, api_key, clock, now, start_ms, end_ms, weather_resp,
                   weather_result, smard_resp, smard_window, smard_result,
                   files, files0, log, filterVars>>

Next ==
    \/ Tick
    \/ LoadDotenv
    \/ LoadKey
    \/ ReadClock
    \/ FetchWeather
    \/ WriteWeather
    \/ FetchSmard
    \/ WriteSmard
    \/ Return

Spec == Init /\ [][Next]_vars

-----------------------------------------------------------------------------
(* Direct calls of get_smard_day_ahead_prices with arbitrary windows *)

FilterTimes == 0..3

FilterPoints == {SmardDataPoint(t, v) : t \in FilterTimes, v \in {7, 8}}

FilterResponses ==
    {Response("send_err", 0, <<>>), Response("body_err", 200, <<>>),
     Response("ok", 200, <<SmardBody(FALSE, <<>>, FALSE)>>)}
    \cup {Response("ok", 200, <<SmardBody(TRUE, d, FALSE)>>) :
            d \in BSeq(FilterPoints, MaxFilterLen)}

InitFilter ==
    /\ pc = "direct"
    /\ envKey = "valid"
    /\ api_key = <<>>
    /\ clock = T0
    /\ now = <<>>
    /\ start_ms = 0
    /\ end_ms = 0
    /\ weather_resp = <<>>
    /\ weather_result = <<>>
    /\ smard_resp = <<>>
    /\ smard_window = <<>>
    /\ smard_result = <<>>
    /\ files = [weather |-> Absent, smard |-> Absent]
    /\ files0 = files
    /\ result = Pending
    /\ log = <<>>
    /\ f_in \in FilterResponses
    /\ f_start \in FilterTimes
    /\ f_end \in FilterTimes
    /\ f_out = <<>>

CallFilter ==
    /\ pc = "direct"
    /\ f_out = <<>>
    /\ f_out' = <<get_smard_day_ahead_prices(f_in, f_start, f_end)>>
    /\ UNCHANGED <<orchVars, f_in, f_start, f_end>>

NextFilter == CallFilter

SpecFilter == InitFilter /\ [][NextFilter]_vars

-----------------------------------------------------------------------------
(* C1 *)

\* positions of the upstream sequence whose timestamp lies in [s, e]
KeptPositions(data, s, e) ==
    {i \in 1..Len(data) : s <= data[i].timestamp /\ data[i].timestamp <= e}

\* C1: for every upstream sequence and window, get_smard_day_ahead_prices
\* returns exactly the points with start_ms <= timestamp <= end_ms (both ends
\* inclusive), in upstream order, and nothing else: the k-th returned point is
\* the upstream point at the k-th in-window position.
C1_FilterExact ==
    (f_out # <<>> /\ f_in.io = "ok" /\ f_in.body[1].decodes) =>
        /\ f_out[1].tag = "Ok"
        /\ LET upstream == f_in.body[1].data
               out == f_out[1].val[1].data
               kept == KeptPositions(upstream, f_start, f_end)
           IN  /\ Len(out) = Cardinality(kept)
               /\ \A k \in 1..Len(out) :
                    \E i \in kept :
                       /\ Cardinality({j \in kept : j <= i}) = k
                       /\ out[k] = upstream[i]

\* a window [T, T] over points at T-1, T, T+1: only the point at T comes back
C1_Witness ==
    /\ f_out # <<>>
    /\ f_start = 2
    /\ f_end = 2
    /\ f_in = Response("ok", 200, <<SmardBody(TRUE,
                 <<SmardDataPoint(1, 7), SmardDataPoint(2, 8), SmardDataPoint(3, 7)>>,
                 FALSE)>>)
    /\ f_out[1] = Ok([data |-> <<SmardDataPoint(2, 8)>>])

-----------------------------------------------------------------------------
(* Vocabulary of the orchestrator claims *)

StepNames == [i \in 1..Len(log) |-> log[i].step]

Executed(name) == \E i \in 1..Len(log) : log[i].step = name

Count(name) == Cardinality({i \in 1..Len(log) : log[i].step = name})

IsRequest(name) == name \in {"weather_req", "smard_req"}

IsWrite(name) == name \in {"weather_write", "smard_write"}

IsPrefix(a, b) == Len(a) <= Len(b) /\ \A i \in 1..Len(a) : a[i] = b[i]

StepOrder == <<"key", "now", "weather_req", "weather_write", "smard_req", "smard_write">>

\* the key lookup has been executed
KeyLooked == Executed("key")

\* the call failed with the configuration error and touched nothing
ConfigurationFailure ==
    /\ pc = "done"
    /\ result.tag = "Err"
    /\ result.exc = "PyValueError"
    /\ \A i \in 1..Len(log) : ~IsRequest(log[i].step) /\ ~IsWrite(log[i].step)
    /\ files = files0

\* a provider answered with a status outside 2xx
NonSuccess(resp) == resp # <<>> /\ resp[1].io = "ok" /\ ~is_success(resp[1].status)

\* the fetch returned an error carrying that response's status and body
CarriesStatusAndBody(res, resp) ==
    /\ res[1].tag = "Err"
    /\ res[1].err[1].status = <<resp[1].status>>
    /\ res[1].err[1].text = resp[1].body

-----------------------------------------------------------------------------
(* C2 *)

\* C2: a non-2xx response from either provider, whatever its body, makes that
\* provider's fetch fail with an error carrying the observed status and body,
\* and the file of that provider's data is not written.
C2_NonSuccessIsHttpError ==
    /\ NonSuccess(weather_resp) =>
          CarriesStatusAndBody(weather_result, weather_resp) /\ ~Executed("weather_write")
    /\ NonSuccess(smard_resp) =>
          CarriesStatusAndBody(smard_result, smard_resp) /\ ~Executed("smard_write")

-----------------------------------------------------------------------------
(* C3 *)

\* C3: with OPENWEATHER_API_KEY missing from the environment the call fails at
\* once with the configuration error: no HTTP request to either provider, no
\* file written.
C3_MissingKeyFailsFast ==
    (KeyLooked /\ envKey = "absent") => ConfigurationFailure

C3_Witness ==
    /\ KeyLooked
    /\ envKey = "absent"
    /\ pc = "done"
    /\ files0.weather = Stale

-----------------------------------------------------------------------------
(* C4 *)

\* C4: with OPENWEATHER_API_KEY present but empty the call fails fast with the
\* configuration error, as when the key is absent: no HTTP request, no file.
C4_EmptyKeyFailsFast ==
    (KeyLooked /\ envKey = "empty") => ConfigurationFailure

-----------------------------------------------------------------------------
(* C5 *)

\* the weather provider answered 2xx with well-formed JSON of the wrong shape
SchemaMismatch ==
    /\ weather_resp # <<>>
    /\ weather_resp[1].io = "ok"
    /\ is_success(weather_resp[1].status)
    /\ weather_resp[1].body[1].json
    /\ ~WeatherDeserializes(weather_resp[1].body[1])

\* C5: a 2xx weather response whose body is valid JSON of the wrong shape makes
\* the weather fetch fail with a parse error, distinct from the HTTP-status
\* error (it carries no status), with the original body attached; the weather
\* file is not written.
C5_SchemaMismatchIsParseError ==
    SchemaMismatch =>
        /\ weather_result[1].tag = "Err"
        /\ weather_result[1].err[1].kind # "status"
        /\ weather_result[1].err[1].status = <<>>
        /\ weather_result[1].err[1].text = weather_resp[1].body
        /\ ~Executed("weather_write")
        /\ files.weather = files0.weather

-----------------------------------------------------------------------------
(* C6 *)

\* the pretty JSON of the snapshot carried by the weather response of this run
ExpectedWeatherText ==
    [json |-> TRUE,
     f |-> [k \in WKeys |-> IF k = "timezone" THEN "absent" ELSE "ok"],
     v |-> weather_resp[1].body[1].v]

\* the pretty JSON of the in-window points of the price response of this run
ExpectedSmardText ==
    LET upstream == smard_resp[1].body[1].data
        kept == KeptPositions(upstream, now[1] - WindowMs, now[1])
        text == files.smard.text[1]
    IN  /\ text.decodes
        /\ ~text.extra
        /\ Len(text.data) = Cardinality(kept)
        /\ \A k \in 1..Len(text.data) :
             \E i \in kept : /\ Cardinality({j \in kept : j <= i}) = k
                             /\ text.data[k] = upstream[i]

\* C6: the call returns the fixed success string only after both files were
\* written in this invocation: whenever the result is Ok, both writes ran and
\* succeeded, weather_data.json holds the serialized snapshot and
\* smard_prices.json the serialized filtered prices obtained in this run.
C6_SuccessAfterBothWrites ==
    result.tag = "Ok" =>
        /\ result.msg = SuccessMessage
        /\ \E i, j \in 1..Len(log) :
              /\ i < j
              /\ log[i] = Step("weather_write", TRUE)
              /\ log[j] = Step("smard_write", TRUE)
        /\ files.weather.kind = "full"
        /\ files.weather.text = <<ExpectedWeatherText>>
        /\ files.smard.kind = "full"
        /\ ExpectedSmardText

\* success over stale files, with points inside and outside the window and
\* an undeclared key in each response
C6_Witness ==
    /\ result.tag = "Ok"
    /\ files0 = [weather |-> Stale, smard |-> Stale]
    /\ weather_resp[1].body[1].f["timezone"] = "ok"
    /\ smard_resp[1].body[1].extra
    /\ Len(smard_resp[1].body[1].data) = 2
    /\ Len(files.smard.text[1].data) = 1

-----------------------------------------------------------------------------
(* C7 *)

\* the weather file was written in this call and the call failed afterwards
FailedAfterWeatherWrite ==
    /\ result.tag = "Err"
    /\ \E i \in 1..Len(log) : log[i] = Step("weather_write", TRUE)

WeatherFileInPlace ==
    files.weather = Full(WeatherToStringPretty(weather_result[1].val[1]))

\* C7 as stated: after a failure of the price fetch or the price-file write the
\* call returns an error, the weather file of this call stays as written, and
\* smard_prices.json keeps the content it had before the failing step.
C7_PriceFileKeepsContent ==
    FailedAfterWeatherWrite =>
        /\ WeatherFileInPlace
        /\ files.smard = files0.smard

\* C7 amended: after a failure of the price fetch or the price-file write the
\* call returns an error and the weather file of this call stays as written;
\* smard_prices.json keeps its prior content when the price fetch failed, and
\* when the price-file write failed it either keeps its prior content or is
\* left truncated or partially written.
C7_WeatherFileKept ==
    FailedAfterWeatherWrite =>
        /\ pc = "done"
        /\ WeatherFileInPlace
        /\ log[Len(log)].step \in {"smard_req", "smard_write"}
        /\ log[Len(log)].step = "smard_req" => files.smard = files0.smard
        /\ log[Len(log)].step = "smard_write" =>
              files.smard \in {files0.smard,
                               Partial(SmardToStringPretty(smard_result[1].val[1]))}

\* the price-file write failed midway over a stale file
C7_Witness ==
    /\ FailedAfterWeatherWrite
    /\ log[Len(log)] = Step("smard_write", FALSE)
    /\ files0.smard = Stale
    /\ files.smard.kind = "partial"
    /\ files.weather.kind = "full"

-----------------------------------------------------------------------------
(* C8 *)

\* C8: a failing step aborts the call: it is the last step executed, the call
\* is over and its result is an error.
C8_FailureAborts ==
    \A i \in 1..Len(log) :
        ~log[i].ok => /\ i = Len(log)
                      /\ pc = "done"
                      /\ result.tag = "Err"

\* the weather-file write failed: nothing of the price half has run
C8_Witness ==
    /\ Len(log) = 4
    /\ log[4] = Step("weather_write", FALSE)
    /\ pc = "done"
    /\ smard_resp = <<>>

-----------------------------------------------------------------------------
(* C9 *)

\* C9: the steps of one call run in the order clock read, weather request,
\* weather-file write, price request, price-file write; the price request is
\* issued only after the weather response was parsed and its file written; the
\* window handed to the price fetch is the one computed from the single clock
\* read that precedes the weather request.
C9_StrictOrder ==
    /\ IsPrefix(StepNames, StepOrder)
    /\ Executed("smard_req") =>
          /\ log[3] = Step("weather_req", TRUE)
          /\ log[4] = Step("weather_write", TRUE)
          /\ files.weather.kind = "full"
          /\ smard_window = <<now[1] - WindowMs, now[1]>>
    /\ Executed("weather_req") => (now # <<>> /\ now[1] <= clock)

\* the price request was issued after the clock had moved on from `now`
C9_Witness ==
    /\ Executed("smard_write")
    /\ result.tag = "Ok"
    /\ smard_window[2] < clock
    /\ smard_window[2] = T0 + 1

-----------------------------------------------------------------------------
(* C10 *)

\* C10: no retries: at most one request to each provider in every call,
\* whether it succeeds or fails, and exactly one to each when the call
\* returns success.
C10_NoRetries ==
    /\ Count("weather_req") <= 1
    /\ Count("smard_req") <= 1
    /\ result.tag = "Ok" => (Count("weather_req") = 1 /\ Count("smard_req") = 1)

\* both sends failed or succeeded once: here the price send failed
C10_Witness ==
    /\ pc = "done"
    /\ smard_resp = <<Response("send_err", 0, <<>>)>>
    /\ Count("weather_req") = 1
    /\ Count("smard_req") = 1

====
